---------------------------- MODULE Spec2Model ----------------------------
(***************************************************************************)
(* A model of the flarepred real-time helpers:                             *)
(*   - RealTime/flare_conditions.py : the threshold predicates on a GOES   *)
(*     sample set and the two registries label -> predicate;               *)
(*   - RealTime/QTimeWidget.py      : the clock widget with its 900 ms     *)
(*     refresh timer and the three include_* toggles.                      *)
(*                                                                         *)
(* Units.  Python floats are modelled as integers in a fixed unit per      *)
(* channel, so that every literal of the source is an integer:             *)
(*   xrsa, xrsb, 3minxrsadiff : 1e-9 W/m^2   (4.5e-7 = 450, 5e-6 = 5000)   *)
(*   5min Temp                : 1            (10.0 = 10)                    *)
(*   5min emission measure    : 1e46 cm^-3   (1e47 = 10)                    *)
(***************************************************************************)
EXTENDS Integers, Sequences, FiniteSets, TLC

VARIABLES
    goes_data,   \* the sample set handed to the predicates: channel -> readings
    result,      \* the outcome of the last call: [op, out]
    phase,       \* polling loop: "fetched" (a new sample set waits) or "evaluated"
    first        \* polling loop: the first evaluation made, [set, gd, reg, out],
                 \* and whether another sample set was evaluated since (others)

VARIABLES
    now,            \* the wall clock, in ms since the widget was constructed
    timer_next,     \* self.timer: the instant of its next timeout, in ms
    active,         \* the slots and calls the event loop has entered and not left
    paint_pending,  \* self.update() was called and the repaint is still to come
    _utc,           \* self._utc, self._local, self._WSMR: the include flags
    _local,
    _WSMR,
    _layout,        \* self._layout: the labels the grid layout manages
    _label_utc,     \* the text of the three QLabels
    _label_local,
    _label_WSMR,
    _utc_str,       \* the time strings of the last _get_times()
    _local_str,
    _WSMR_str,
    reads           \* the clock instants the last _get_times() read, per zone

cond_vars == <<goes_data, result, phase, first>>

widget_vars ==
    <<now, timer_next, active, paint_pending, _utc, _local, _WSMR, _layout,
      _label_utc, _label_local, _label_WSMR, _utc_str, _local_str, _WSMR_str,
      reads>>

vars == <<cond_vars, widget_vars>>

-----------------------------------------------------------------------------
(* Bounds of the model *)

\* a sample set holds at most this many readings, over all its channels
MaxReadings == 3

\* the wall clock is followed for this many steps of ClockStep ms
MaxSteps == 7

-----------------------------------------------------------------------------
(* Sample sets *)

ChannelSeq == <<"xrsa", "xrsb", "5min Temp", "3minxrsadiff", "5min emission measure">>

Channels == {ChannelSeq[i] : i \in 1..Len(ChannelSeq)}

\* the readings a channel's most recent sample is drawn from: below, at and
\* above every threshold the source compares that channel with
Values(ch) ==
    CASE ch = "xrsa" -> {400, 450, 500}
      [] ch = "xrsb" -> {2000, 2500, 3000, 4000, 5000, 6000}
      [] ch = "5min Temp" -> {5, 10, 15}
      [] ch = "3minxrsadiff" -> {0 - 10, 50, 60}
      [] ch = "5min emission measure" -> {2, 10, 20}

\* the readings the older samples of a channel are drawn from
Earlier(ch) ==
    CASE ch = "xrsa" -> {400, 500}
      [] ch = "xrsb" -> {1000, 6000}
      [] ch = "5min Temp" -> {5, 15}
      [] ch = "3minxrsadiff" -> {0 - 10, 60}
      [] ch = "5min emission measure" -> {2, 20}

RECURSIVE EarlierSeqs(_, _)
EarlierSeqs(ch, k) ==
    IF k = 0 THEN {<<>>}
    ELSE {Append(s, w) : s \in EarlierSeqs(ch, k - 1), w \in Earlier(ch)}

\* what a present channel may hold with exactly k readings
ContentsOfLen(ch, k) ==
    IF k = 0 THEN {<<>>}
    ELSE {s \o <<v>> : s \in EarlierSeqs(ch, k - 1), v \in Values(ch)}

EmptySampleSet == [ch \in {} |-> <<>>]

\* a channel of a sample set: absent, or present with at most budget readings
Option(ch, budget) ==
    {[present |-> FALSE, vals |-> <<>>]} \cup
    {[present |-> TRUE, vals |-> c] : c \in UNION {ContentsOfLen(ch, k) : k \in 0..budget}}

\* the sample set with the channels that opts marks present
SampleSetOf(opts) ==
    [ch \in {c \in Channels : opts[c].present} |-> opts[ch].vals]

\* goes_data is any sample set, with any subset of the channels present, that
\* holds at most MaxReadings readings in all
AnySampleSet ==
    \E o1 \in Option(ChannelSeq[1], MaxReadings) :
    \E o2 \in Option(ChannelSeq[2], MaxReadings - Len(o1.vals)) :
    \E o3 \in Option(ChannelSeq[3], MaxReadings - Len(o1.vals) - Len(o2.vals)) :
    \E o4 \in Option(ChannelSeq[4],
                     MaxReadings - Len(o1.vals) - Len(o2.vals) - Len(o3.vals)) :
    \E o5 \in Option(ChannelSeq[5],
                     MaxReadings - Len(o1.vals) - Len(o2.vals) - Len(o3.vals)
                         - Len(o4.vals)) :
        goes_data = SampleSetOf((ChannelSeq[1] :> o1) @@ (ChannelSeq[2] :> o2) @@
                                (ChannelSeq[3] :> o3) @@ (ChannelSeq[4] :> o4) @@
                                (ChannelSeq[5] :> o5))

-----------------------------------------------------------------------------
(* Python outcomes: a returned value or a raised exception *)

Return(b) == [kind |-> "return", value |-> b, channel |-> ""]

\* goes_data[ch] on a sample set without the key ch
KeyError(ch) == [kind |-> "KeyError", value |-> FALSE, channel |-> ch]

\* .iloc[-1] on a channel with no readings
IndexError(ch) == [kind |-> "IndexError", value |-> FALSE, channel |-> ch]

Raised(out) == out.kind \in {"KeyError", "IndexError"}

NoResult == [op |-> "none", out |-> Return(FALSE)]

NoFirst ==
    [set |-> FALSE, gd |-> EmptySampleSet, reg |-> "", out |-> Return(FALSE),
     others |-> FALSE]

\* Series.iloc[i] for a negative position i, counted from the end
iloc(s, i) == s[Len(s) + 1 + i]


-----------------------------------------------------------------------------
(* flare_conditions.py: the predicates *)

xrsa_condition(gd) ==
    IF "xrsa" \notin DOMAIN gd THEN KeyError("xrsa")
    ELSE LET a == gd["xrsa"]
             flux_val == 450
         IN  IF Len(a) = 0 THEN IndexError("xrsa")
             ELSE Return(iloc(a, 0 - 1) > flux_val)

\* the comparison taken as >= instead of >
xrsb_condition_ge(gd) ==
    IF "xrsb" \notin DOMAIN gd THEN KeyError("xrsb")
    ELSE LET b == gd["xrsb"]
             flux_val == 5000
         IN  IF Len(b) = 0 THEN IndexError("xrsb")
             ELSE Return(iloc(b, 0 - 1) >= flux_val)

xrsb_condition(gd) ==
    IF "xrsb" \notin DOMAIN gd THEN KeyError("xrsb")
    ELSE LET b == gd["xrsb"]
             flux_val == 5000
         IN  IF Len(b) = 0 THEN IndexError("xrsb")
             ELSE Return(iloc(b, 0 - 1) > flux_val)

\* a verdict that latches: once the last evaluation held it true, it stays true
xrsb_condition2_latched(gd) ==
    IF "xrsb" \notin DOMAIN gd THEN KeyError("xrsb")
    ELSE LET b == gd["xrsb"]
             flux_val == 3000
             held == /\ result.op = "FLARE_ALERT_MAP_NEW"
                     /\ result.out.kind = "mapping"
                     /\ \A l \in DOMAIN result.out.value : result.out.value[l]
         IN  IF Len(b) = 0 THEN IndexError("xrsb")
             ELSE Return(iloc(b, 0 - 1) > flux_val \/ held)

xrsb_condition2(gd) ==
    IF "xrsb" \notin DOMAIN gd THEN KeyError("xrsb")
    ELSE LET b == gd["xrsb"]
             flux_val == 3000
         IN  IF Len(b) = 0 THEN IndexError("xrsb")
             ELSE Return(iloc(b, 0 - 1) > flux_val)

temp5min_condition(gd) ==
    IF "5min Temp" \notin DOMAIN gd THEN KeyError("5min Temp")
    ELSE LET temp == gd["5min Temp"]
             temp_val == 10
         IN  IF Len(temp) = 0 THEN IndexError("5min Temp")
             ELSE Return(iloc(temp, 0 - 1) > temp_val)

xrsa_3mindiff_condition(gd) ==
    IF "3minxrsadiff" \notin DOMAIN gd THEN KeyError("3minxrsadiff")
    ELSE LET xrsa3min == gd["3minxrsadiff"]
             xrsa3min_val == 50
         IN  IF Len(xrsa3min) = 0 THEN IndexError("3minxrsadiff")
             ELSE Return(iloc(xrsa3min, 0 - 1) > xrsa3min_val)

\* a missing or empty channel read as "no alert" instead of failing
em3min_condition_default(gd) ==
    IF "5min emission measure" \notin DOMAIN gd THEN Return(FALSE)
    ELSE LET em == gd["5min emission measure"]
             em_val == 10
         IN  IF Len(em) = 0 THEN Return(FALSE)
             ELSE Return(iloc(em, 0 - 1) > em_val)

em3min_condition(gd) ==
    IF "5min emission measure" \notin DOMAIN gd
    THEN KeyError("5min emission measure")
    ELSE LET em == gd["5min emission measure"]
             em_val == 10
         IN  IF Len(em) = 0 THEN IndexError("5min emission measure")
             ELSE Return(iloc(em, 0 - 1) > em_val)

special_flare_trigger(gd) == Return(TRUE)

\* the placeholder given the body of a real trigger
magic_flare_trigger_xrsb(gd) ==
    IF "xrsb" \notin DOMAIN gd THEN KeyError("xrsb")
    ELSE LET b == gd["xrsb"]
         IN  IF Len(b) = 0 THEN IndexError("xrsb")
             ELSE Return(iloc(b, 0 - 1) > 5000)

magic_flare_trigger(gd) == Return(TRUE)

\* the end threshold raised above the trigger threshold of xrsb_condition2
flare_end_condition_high(gd) ==
    IF "xrsa" \notin DOMAIN gd THEN KeyError("xrsa")
    ELSE IF "xrsb" \notin DOMAIN gd THEN KeyError("xrsb")
    ELSE LET b == gd["xrsb"]
             flux_val == 3500
         IN  IF Len(b) = 0 THEN IndexError("xrsb")
             ELSE Return(iloc(b, 0 - 1) < flux_val)

\* a = goes_data['xrsa'] is evaluated first and never used; b.iloc[-1] is the
\* only indexing
flare_end_condition(gd) ==
    IF "xrsa" \notin DOMAIN gd THEN KeyError("xrsa")
    ELSE IF "xrsb" \notin DOMAIN gd THEN KeyError("xrsb")
    ELSE LET a == gd["xrsa"]
             b == gd["xrsb"]
             flux_val == 2500
             flux_deriv_val == 1
         IN  IF Len(b) = 0 THEN IndexError("xrsb")
             ELSE Return(iloc(b, 0 - 1) < flux_val)

Predicates ==
    {"xrsa_condition", "xrsb_condition", "xrsb_condition2", "temp5min_condition",
     "xrsa_3mindiff_condition", "em3min_condition", "special_flare_trigger",
     "magic_flare_trigger", "flare_end_condition"}

\* calling the function a registry entry holds
Call(f, gd) ==
    CASE f = "xrsa_condition" -> xrsa_condition(gd)
      [] f = "xrsb_condition" -> xrsb_condition(gd)
      [] f = "xrsb_condition2" -> xrsb_condition2(gd)
      [] f = "temp5min_condition" -> temp5min_condition(gd)
      [] f = "xrsa_3mindiff_condition" -> xrsa_3mindiff_condition(gd)
      [] f = "em3min_condition" -> em3min_condition(gd)
      [] f = "special_flare_trigger" -> special_flare_trigger(gd)
      [] f = "magic_flare_trigger" -> magic_flare_trigger(gd)
      [] f = "flare_end_condition" -> flare_end_condition(gd)

-----------------------------------------------------------------------------
(* flare_conditions.py: the registries, as (label, function) in dict order *)

\* the commented-out XRSA entry left active
FLARE_ALERT_MAP_with_xrsa ==
    << <<"XRSB>5e-6 W/m<sup>2</sup>", "xrsb_condition">>,
       <<"XRSA>4.5e-7W/m<sup>2</sup>", "xrsa_condition">>,
       <<"dEM (3 min)>1e47cm<sup>-2</sup>", "em3min_condition">> >>

FLARE_ALERT_MAP ==
    << <<"XRSB>5e-6 W/m<sup>2</sup>", "xrsb_condition">>,
       <<"dEM (3 min)>1e47cm<sup>-2</sup>", "em3min_condition">> >>

FLARE_ALERT_MAP_NEW ==
    << <<"XRSB>3e-6 W/m<sup>2</sup><br>5 minute countdown<br>Last XRSA must be increasing",
         "xrsb_condition2">> >>

Registry(name) ==
    CASE name = "FLARE_ALERT_MAP" -> FLARE_ALERT_MAP
      [] name = "FLARE_ALERT_MAP_NEW" -> FLARE_ALERT_MAP_NEW

RegistryNames == {"FLARE_ALERT_MAP", "FLARE_ALERT_MAP_NEW"}

Labels(registry) == {registry[i][1] : i \in 1..Len(registry)}

-----------------------------------------------------------------------------
(* The evaluator of the specification, section 4.1: every entry's predicate  *)
(* is invoked on the sample set; the first predicate that fails on a missing *)
(* or empty channel ends the evaluation with MissingChannel(channel).        *)

Mapping(m) == [kind |-> "mapping", value |-> m, channel |-> ""]

MissingChannel(ch) ==
    [kind |-> "MissingChannel", value |-> EmptySampleSet, channel |-> ch]

RECURSIVE evaluate_from(_, _, _, _)
evaluate_from(sample_set, registry, i, verdicts) ==
    IF i > Len(registry) THEN Mapping(verdicts)
    ELSE LET out == Call(registry[i][2], sample_set) IN
         IF Raised(out) THEN MissingChannel(out.channel)
         ELSE evaluate_from(sample_set, registry, i + 1,
                            (registry[i][1] :> out.value) @@ verdicts)

evaluate(sample_set, registry) ==
    evaluate_from(sample_set, registry, 1, EmptySampleSet)

-----------------------------------------------------------------------------
(* QTimeWidget.py: the time strings *)

DigitChars == <<"0", "1", "2", "3", "4", "5", "6", "7", "8", "9">>

D2(n) == <<DigitChars[(n \div 10) + 1], DigitChars[(n % 10) + 1]>>

D4(n) == D2(n \div 100) \o D2(n % 100)

\* the wall clock at construction, in seconds since 2024/01/01 00:00:00 UTC:
\* 2024/01/15 23:59:59; the instants modelled stay within January 2024
StartSeconds == 15 * 86400 - 1

\* the date and time of day, secs seconds after 2024/01/01 00:00:00
DateTime(secs) ==
    [Y |-> 2024, m |-> 1, d |-> 1 + (secs \div 86400),
     H |-> (secs % 86400) \div 3600,
     M |-> (secs % 3600) \div 60,
     S |-> secs % 60]

\* self._datetime_str_format = "%Y/%m/%d, %H:%M:%S"
strftime(dt) ==
    D4(dt.Y) \o <<"/">> \o D2(dt.m) \o <<"/">> \o D2(dt.d) \o <<",", " ">> \o
    D2(dt.H) \o <<":">> \o D2(dt.M) \o <<":">> \o D2(dt.S)

Zones == {"utc", "local", "WSMR"}

\* the offset from UTC, in seconds: datetime.timezone.utc, the host's zone
\* (taken as UTC+1) and pytz's US/Mountain in January (MST, UTC-7)
UtcOffset(zone) ==
    CASE zone = "utc" -> 0
      [] zone = "local" -> 3600
      [] zone = "WSMR" -> 0 - 7 * 3600

\* datetime.datetime.now(tz) read at clock instant t (ms), formatted
TimeString(zone, t) ==
    strftime(DateTime(StartSeconds + (t \div 1000) + UtcOffset(zone)))

_utc_prefix == <<"U", "T", "C", " ", "T", "i", "m", "e", ":", " ">>

_local_prefix == <<"L", "o", "c", "a", "l", " ", "T", "i", "m", "e", ":", " ">>

_WSMR_prefix == <<"W", "S", "M", "R", " ", "T", "i", "m", "e", ":", " ">>

_postfix == <<>>

\* the format specification {s:width} on a string: left-justified, filled with
\* spaces up to width, never cut
Pad(s, width) ==
    IF Len(s) >= width THEN s ELSE s \o [i \in 1..(width - Len(s)) |-> " "]

\* f"{prefix:15}{time_str:20}{postfix}"
LabelText(prefix, time_str, postfix) ==
    Pad(prefix, 15) \o Pad(time_str, 20) \o postfix

\* truth value of a Python object: the bools and the non-empty str 'True'
Truthy(v) == v \in {"True", "'True'"}

\* every label rewritten, whatever its flag
_update_label_always(flag, old_text, prefix, time_str, postfix) ==
    LabelText(prefix, time_str, postfix)

\* the text _update_labels() leaves in a label: rewritten when the zone's flag
\* is true, left alone otherwise
_update_label(flag, old_text, prefix, time_str, postfix) ==
    IF Truthy(flag) THEN LabelText(prefix, time_str, postfix) ELSE old_text

-----------------------------------------------------------------------------
(* QTimeWidget.py: the widget *)

\* self.timer.setInterval(900)
TimerInterval == 900

\* the grain of the model's clock, in ms
ClockStep == TimerInterval \div 3

MaxTime == MaxSteps * ClockStep

\* the widget as __init__ leaves it: the three flags set to the str "True",
\* the labels built, filled with the time of construction and added to the
\* layout, the timer started
WidgetConstructed ==
    /\ now = 0
    /\ timer_next = TimerInterval
    /\ active = <<>>
    /\ paint_pending = TRUE
    /\ _utc = "'True'"
    /\ _local = "'True'"
    /\ _WSMR = "'True'"
    /\ _layout = {"_label_utc", "_label_local", "_label_WSMR"}
    /\ _utc_str = TimeString("utc", 0)
    /\ _local_str = TimeString("local", 0)
    /\ _WSMR_str = TimeString("WSMR", 0)
    /\ _label_utc = LabelText(_utc_prefix, TimeString("utc", 0), _postfix)
    /\ _label_local = LabelText(_local_prefix, TimeString("local", 0), _postfix)
    /\ _label_WSMR = LabelText(_WSMR_prefix, TimeString("WSMR", 0), _postfix)
    /\ reads = [z \in Zones |-> 0]

\* the host's event loop (app.exec()) enters a slot only when no slot or call
\* on the widget is running: everything runs on the one GUI thread
EventLoopIdle == active = <<>>

InitWidget ==
    /\ WidgetConstructed
    /\ goes_data = EmptySampleSet
    /\ result = NoResult
    /\ phase = "evaluated"
    /\ first = NoFirst

\* time passes, also while a slot runs
ClockAdvance ==
    /\ now + ClockStep <= MaxTime
    /\ now' = now + ClockStep
    /\ UNCHANGED <<timer_next, active, paint_pending, _utc, _local, _WSMR,
                   _layout, _label_utc, _label_local, _label_WSMR, _utc_str,
                   _local_str, _WSMR_str, reads>>
    /\ UNCHANGED cond_vars

\* the timeout delivered although a slot is still running (a timer living in
\* another thread, or a slot that re-enters the event loop)
TimerTimeout_reentrant ==
    /\ now >= timer_next
    /\ active' = Append(active, [slot |-> "cycle_times", arg |-> "None"])
    /\ timer_next' = IF timer_next + TimerInterval > now
                     THEN timer_next + TimerInterval
                     ELSE now + TimerInterval
    /\ UNCHANGED <<now, paint_pending, _utc, _local, _WSMR, _layout,
                   _label_utc, _label_local, _label_WSMR, _utc_str,
                   _local_str, _WSMR_str, reads>>
    /\ UNCHANGED cond_vars

\* the timer's timeout is delivered: the event loop enters cycle_times and the
\* timer is armed for the next interval
TimerTimeout ==
    /\ EventLoopIdle
    /\ now >= timer_next
    /\ active' = Append(active, [slot |-> "cycle_times", arg |-> "None"])
    /\ timer_next' = IF timer_next + TimerInterval > now
                     THEN timer_next + TimerInterval
                     ELSE now + TimerInterval
    /\ UNCHANGED <<now, paint_pending, _utc, _local, _WSMR, _layout,
                   _label_utc, _label_local, _label_WSMR, _utc_str,
                   _local_str, _WSMR_str, reads>>
    /\ UNCHANGED cond_vars

\* the host calls include_utc, include_local or include_WSMR with a bool
HostCall(slot, include) ==
    /\ EventLoopIdle
    /\ active' = Append(active, [slot |-> slot, arg |-> include])
    /\ UNCHANGED <<now, timer_next, paint_pending, _utc, _local, _WSMR, _layout,
                   _label_utc, _label_local, _label_WSMR, _utc_str,
                   _local_str, _WSMR_str, reads>>
    /\ UNCHANGED cond_vars

Running(slot) == active # <<>> /\ active[Len(active)].slot = slot

\* cycle_times(): _update_labels() (which starts with _get_times(), three
\* readings of the clock in a row), then _trigger_label_update()
cycle_times ==
    /\ Running("cycle_times")
    /\ \E t_local \in {now, now + ClockStep} :
       \E t_WSMR \in {t_local, t_local + ClockStep} :
          /\ t_WSMR <= MaxTime
          /\ reads' = [z \in Zones |->
                          CASE z = "utc" -> now
                            [] z = "local" -> t_local
                            [] z = "WSMR" -> t_WSMR]
          /\ now' = t_WSMR
    /\ _utc_str' = TimeString("utc", reads'["utc"])
    /\ _local_str' = TimeString("local", reads'["local"])
    /\ _WSMR_str' = TimeString("WSMR", reads'["WSMR"])
    /\ _label_utc' = _update_label(_utc, _label_utc, _utc_prefix, _utc_str', _postfix)
    /\ _label_local' =
           _update_label(_local, _label_local, _local_prefix, _local_str', _postfix)
    /\ _label_WSMR' =
           _update_label(_WSMR, _label_WSMR, _WSMR_prefix, _WSMR_str', _postfix)
    /\ paint_pending' = TRUE
    /\ active' = SubSeq(active, 1, Len(active) - 1)
    /\ UNCHANGED <<timer_next, _utc, _local, _WSMR, _layout>>
    /\ UNCHANGED cond_vars

\* what removeWidget leaves of the layout when include is false
LayoutAfterInclude(include, label) ==
    IF ~Truthy(include) THEN _layout \ {label} ELSE _layout

include_utc ==
    /\ Running("include_utc")
    /\ LET include == active[Len(active)].arg IN
       /\ _utc' = include
       /\ _layout' = LayoutAfterInclude(include, "_label_utc")
    /\ paint_pending' = TRUE
    /\ active' = SubSeq(active, 1, Len(active) - 1)
    /\ UNCHANGED <<now, timer_next, _local, _WSMR, _label_utc, _label_local,
                   _label_WSMR, _utc_str, _local_str, _WSMR_str, reads>>
    /\ UNCHANGED cond_vars

include_local ==
    /\ Running("include_local")
    /\ LET include == active[Len(active)].arg IN
       /\ _local' = include
       /\ _layout' = LayoutAfterInclude(include, "_label_local")
    /\ paint_pending' = TRUE
    /\ active' = SubSeq(active, 1, Len(active) - 1)
    /\ UNCHANGED <<now, timer_next, _utc, _WSMR, _label_utc, _label_local,
                   _label_WSMR, _utc_str, _local_str, _WSMR_str, reads>>
    /\ UNCHANGED cond_vars

include_WSMR ==
    /\ Running("include_WSMR")
    /\ LET include == active[Len(active)].arg IN
       /\ _WSMR' = include
       /\ _layout' = LayoutAfterInclude(include, "_label_WSMR")
    /\ paint_pending' = TRUE
    /\ active' = SubSeq(active, 1, Len(active) - 1)
    /\ UNCHANGED <<now, timer_next, _utc, _local, _label_utc, _label_local,
                   _label_WSMR, _utc_str, _local_str, _WSMR_str, reads>>
    /\ UNCHANGED cond_vars

\* the repaint self.update() asked for
Paint ==
    /\ EventLoopIdle
    /\ paint_pending
    /\ paint_pending' = FALSE
    /\ UNCHANGED <<now, timer_next, active, _utc, _local, _WSMR, _layout,
                   _label_utc, _label_local, _label_WSMR, _utc_str,
                   _local_str, _WSMR_str, reads>>
    /\ UNCHANGED cond_vars

IncludeSlots == {"include_utc", "include_local", "include_WSMR"}

NextWidget ==
    \/ ClockAdvance
    \/ TimerTimeout
    \/ \E slot \in IncludeSlots : \E include \in {"True", "False"} :
           HostCall(slot, include)
    \/ cycle_times
    \/ include_utc
    \/ include_local
    \/ include_WSMR
    \/ Paint

SpecWidget == InitWidget /\ [][NextWidget]_vars

-----------------------------------------------------------------------------
(* The predicates and the evaluator applied to a sample set *)

Init ==
    /\ AnySampleSet
    /\ result = NoResult
    /\ phase = "fetched"
    /\ first = NoFirst
    /\ WidgetConstructed

CallPredicate(f) ==
    /\ result' = [op |-> f, out |-> Call(f, goes_data)]
    /\ UNCHANGED <<goes_data, phase, first>>
    /\ UNCHANGED widget_vars

Call_xrsa_condition == CallPredicate("xrsa_condition")

Call_xrsb_condition == CallPredicate("xrsb_condition")

Call_xrsb_condition2 == CallPredicate("xrsb_condition2")

Call_temp5min_condition == CallPredicate("temp5min_condition")

Call_xrsa_3mindiff_condition == CallPredicate("xrsa_3mindiff_condition")

Call_em3min_condition == CallPredicate("em3min_condition")

Call_special_flare_trigger == CallPredicate("special_flare_trigger")

Call_magic_flare_trigger == CallPredicate("magic_flare_trigger")

Call_flare_end_condition == CallPredicate("flare_end_condition")

Evaluate(name) ==
    /\ result' = [op |-> name, out |-> evaluate(goes_data, Registry(name))]
    /\ UNCHANGED <<goes_data, phase, first>>
    /\ UNCHANGED widget_vars

Evaluate_FLARE_ALERT_MAP == Evaluate("FLARE_ALERT_MAP")

Evaluate_FLARE_ALERT_MAP_NEW == Evaluate("FLARE_ALERT_MAP_NEW")

Next ==
    \/ Call_xrsa_condition
    \/ Call_xrsb_condition
    \/ Call_xrsb_condition2
    \/ Call_temp5min_condition
    \/ Call_xrsa_3mindiff_condition
    \/ Call_em3min_condition
    \/ Call_special_flare_trigger
    \/ Call_magic_flare_trigger
    \/ Call_flare_end_condition
    \/ Evaluate_FLARE_ALERT_MAP
    \/ Evaluate_FLARE_ALERT_MAP_NEW

Spec == Init /\ [][Next]_vars

-----------------------------------------------------------------------------
(* The external polling loop of the specification, section 2: each cycle it  *)
(* fetches telemetry and evaluates the registry it was configured with.      *)

\* what a fetch leaves in a channel: one or two readings, far below or far
\* above the thresholds
PollContents(ch) ==
    {<<w>> : w \in Earlier(ch)} \cup
    {<<p[1], p[2]>> : p \in {q \in Earlier(ch) \X Earlier(ch) : q[2] < q[1]}}

InitPoll ==
    /\ goes_data = EmptySampleSet
    /\ result = NoResult
    /\ phase = "evaluated"
    /\ first = NoFirst
    /\ WidgetConstructed

\* the loop fetches: one channel of the sample set is replaced
Poll(ch, c) ==
    /\ phase = "evaluated"
    /\ goes_data' = (ch :> c) @@ goes_data
    /\ phase' = "fetched"
    /\ UNCHANGED <<result, first>>
    /\ UNCHANGED widget_vars

\* the loop evaluates the registry on the sample set it fetched
PollEvaluate(name) ==
    /\ phase = "fetched"
    /\ LET out == evaluate(goes_data, Registry(name)) IN
       /\ result' = [op |-> name, out |-> out]
       /\ first' = IF ~first.set
                   THEN [set |-> TRUE, gd |-> goes_data, reg |-> name,
                         out |-> out, others |-> FALSE]
                   ELSE [first EXCEPT !.others = @ \/ goes_data # first.gd]
    /\ phase' = "evaluated"
    /\ UNCHANGED goes_data
    /\ UNCHANGED widget_vars

NextPoll ==
    \/ \E ch \in Channels : \E c \in PollContents(ch) : Poll(ch, c)
    \/ \E name \in RegistryNames : PollEvaluate(name)

SpecPoll == InitPoll /\ [][NextPoll]_vars

-----------------------------------------------------------------------------
(* Properties of the predicates and the registries, under Spec *)

NonEmpty(ch) == ch \in DOMAIN goes_data /\ Len(goes_data[ch]) > 0

Missing(ch) == ch \notin DOMAIN goes_data \/ Len(goes_data[ch]) = 0

LastOf(ch) == goes_data[ch][Len(goes_data[ch])]

ThresholdTable ==
    { [f |-> "xrsa_condition", ch |-> "xrsa", thr |-> 450],
      [f |-> "xrsb_condition", ch |-> "xrsb", thr |-> 5000],
      [f |-> "xrsb_condition2", ch |-> "xrsb", thr |-> 3000],
      [f |-> "temp5min_condition", ch |-> "5min Temp", thr |-> 10],
      [f |-> "xrsa_3mindiff_condition", ch |-> "3minxrsadiff", thr |-> 50],
      [f |-> "em3min_condition", ch |-> "5min emission measure", thr |-> 10] }

\* C1: whenever one of the six threshold predicates has been called on a sample
\* set whose channel is present and non-empty, it returned (did not raise) the
\* boolean "last value of its channel > its threshold": true strictly above,
\* false at the threshold and below, whatever the earlier readings of the
\* channel and whatever the other channels hold.
C1_LastValueAboveThreshold ==
    \A t \in ThresholdTable :
        (result.op = t.f /\ NonEmpty(t.ch))
            => result.out = Return(LastOf(t.ch) > t.thr)

\* xrsb_condition called on a two-reading channel whose last reading is exactly
\* the threshold and whose earlier reading is above it, another channel present
C1_Witness ==
    /\ result.op = "xrsb_condition"
    /\ "xrsb" \in DOMAIN goes_data
    /\ goes_data["xrsb"] = <<6000, 5000>>
    /\ "xrsa" \in DOMAIN goes_data
    /\ result.out = Return(FALSE)

\* C2: whenever flare_end_condition has been called on a sample set with a
\* non-empty xrsb channel, it returned the boolean "last xrsb value < 2.5e-6",
\* whichever other channels are present.
C2_FlareEndReadsXrsbOnly ==
    (result.op = "flare_end_condition" /\ NonEmpty("xrsb"))
        => result.out = Return(LastOf("xrsb") < 2500)

ReferencedChannels(name) ==
    CASE name = "FLARE_ALERT_MAP" -> {"xrsb", "5min emission measure"}
      [] name = "FLARE_ALERT_MAP_NEW" -> {"xrsb"}

\* C3: whenever a registry has been evaluated on a sample set in which a
\* channel its predicates read is absent or empty, the outcome is the error
\* MissingChannel naming such a channel (the one that is missing, when there is
\* only one) and carries no verdict mapping.
C3_MissingChannelPropagates ==
    \A name \in RegistryNames :
        LET missing == {ch \in ReferencedChannels(name) : Missing(ch)} IN
        (result.op = name /\ missing # {})
            => /\ result.out.kind = "MissingChannel"
               /\ result.out.channel \in missing
               /\ DOMAIN result.out.value = {}

\* the original registry evaluated on a sample set with xrsb but without the
\* emission measure
C3_Witness ==
    /\ result.op = "FLARE_ALERT_MAP"
    /\ NonEmpty("xrsb")
    /\ "5min emission measure" \notin DOMAIN goes_data
    /\ result.out = MissingChannel("5min emission measure")

\* C4: the original registry has exactly the two entries XRSB-high (5e-6) and
\* dEM-high (1e47), the new registry exactly the one entry XRSB-high-alt (3e-6),
\* labels distinct; so an evaluation on a sample set with the channels non-empty
\* returns exactly the mapping of those labels to the threshold comparisons.
C4_RegistryVerdicts ==
    /\ Len(FLARE_ALERT_MAP) = 2
    /\ Cardinality(Labels(FLARE_ALERT_MAP)) = 2
    /\ Len(FLARE_ALERT_MAP_NEW) = 1
    /\ (result.op = "FLARE_ALERT_MAP" /\ NonEmpty("xrsb")
            /\ NonEmpty("5min emission measure"))
        => result.out =
             Mapping(("XRSB>5e-6 W/m<sup>2</sup>" :> (LastOf("xrsb") > 5000)) @@
                     ("dEM (3 min)>1e47cm<sup>-2</sup>"
                          :> (LastOf("5min emission measure") > 10)))
    /\ (result.op = "FLARE_ALERT_MAP_NEW" /\ NonEmpty("xrsb"))
        => result.out =
             Mapping("XRSB>3e-6 W/m<sup>2</sup><br>5 minute countdown<br>Last XRSA must be increasing"
                         :> (LastOf("xrsb") > 3000))

\* the original registry evaluated with xrsb = [1e-6, 6e-6] and the emission
\* measure ending in 2e47: both verdicts true
C4_Witness ==
    /\ result.op = "FLARE_ALERT_MAP"
    /\ "xrsb" \in DOMAIN goes_data
    /\ goes_data["xrsb"] = <<1000, 6000>>
    /\ NonEmpty("5min emission measure")
    /\ LastOf("5min emission measure") = 20
    /\ result.out.kind = "mapping"
    /\ \A l \in DOMAIN result.out.value : result.out.value[l] = TRUE

\* C6: whenever special_flare_trigger or magic_flare_trigger has been called,
\* on any sample set, it returned true and did not raise.
C6_PlaceholdersAlwaysTrue ==
    (result.op \in {"special_flare_trigger", "magic_flare_trigger"})
        => result.out = Return(TRUE)

\* magic_flare_trigger called on a sample set that holds no reading at all
\* (no channel, or empty channels only)
C6_Witness ==
    /\ result.op = "magic_flare_trigger"
    /\ \A ch \in DOMAIN goes_data : Len(goes_data[ch]) = 0
    /\ result.out = Return(TRUE)

\* C10: on every sample set on which flare_end_condition, xrsb_condition and
\* xrsb_condition2 all return, end and either trigger are never both true, the
\* 5e-6 trigger implies the 3e-6 trigger, and for a last xrsb value from 2.5e-6
\* up to and including 3e-6 neither the end nor the 3e-6 trigger is true.
C10_TriggerEndConsistent ==
    LET e  == flare_end_condition(goes_data)
        t  == xrsb_condition(goes_data)
        t2 == xrsb_condition2(goes_data)
    IN  (e.kind = "return" /\ t.kind = "return" /\ t2.kind = "return")
            => /\ ~(e.value /\ t2.value)
               /\ ~(e.value /\ t.value)
               /\ t.value => t2.value
               /\ (LastOf("xrsb") >= 2500 /\ LastOf("xrsb") <= 3000)
                      => (~e.value /\ ~t2.value)

\* flare_end_condition called in the dead band: last xrsb = 3e-6, where neither
\* the end nor the 3e-6 trigger holds
C10_Witness ==
    /\ result.op = "flare_end_condition"
    /\ result.out = Return(FALSE)
    /\ NonEmpty("xrsb")
    /\ LastOf("xrsb") = 3000
    /\ xrsb_condition2(goes_data) = Return(FALSE)

-----------------------------------------------------------------------------
(* Properties of the polling cycles, under SpecPoll *)

\* the sample set and registry of the first evaluation, evaluated again
SameAsFirst ==
    /\ first.set
    /\ phase = "evaluated"
    /\ result.op = first.reg
    /\ goes_data = first.gd

-----------------------------------------------------------------------------
(* Properties of the widget, under SpecWidget *)

Flag(zone) ==
    CASE zone = "utc" -> _utc
      [] zone = "local" -> _local
      [] zone = "WSMR" -> _WSMR

Label(zone) ==
    CASE zone = "utc" -> _label_utc
      [] zone = "local" -> _label_local
      [] zone = "WSMR" -> _label_WSMR

LabelName(zone) ==
    CASE zone = "utc" -> "_label_utc"
      [] zone = "local" -> "_label_local"
      [] zone = "WSMR" -> "_label_WSMR"

Prefix(zone) ==
    CASE zone = "utc" -> _utc_prefix
      [] zone = "local" -> _local_prefix
      [] zone = "WSMR" -> _WSMR_prefix

Spaces(n) == [i \in 1..n |-> " "]

\* a refresh begins: the event loop enters cycle_times
RefreshStarts ==
    /\ Len(active') = Len(active) + 1
    /\ active'[Len(active')].slot = "cycle_times"

\* a refresh completes: cycle_times returns
RefreshCompletes == Running("cycle_times") /\ Len(active') = Len(active) - 1

\* C7: in every reachable state at most one slot or call of the widget is in
\* progress, so a refresh is never entered while a refresh is running and never
\* overlaps an include_* call; and a refresh begins only once the timer's
\* deadline has come, the next deadline then lying at least 900 ms after the
\* last one and after the present instant.
C7_SingleInFlight ==
    /\ [](Len(active) <= 1)
    /\ [][RefreshStarts => /\ now >= timer_next
                           /\ timer_next' >= timer_next + 900
                           /\ timer_next' > now
                           /\ timer_next' <= now + 900]_vars

\* a refresh is still running at the instant the timer's next timeout is due
C7_Witness ==
    /\ Running("cycle_times")
    /\ now >= timer_next

\* C8: whenever no call is in progress, each zone's label is in the layout
\* exactly when the zone's flag (the argument of the most recent include_* call
\* for it, or the constructor's default) is true.
C8_LayoutFollowsLastInclude ==
    EventLoopIdle =>
        \A zone \in Zones : (LabelName(zone) \in _layout) <=> Truthy(Flag(zone))

\* C9: a completed refresh leaves in the label of every enabled zone the zone's
\* prefix, filled with spaces to 15 columns, followed by the time string of an
\* instant read during this refresh, and changes no flag; and the text of a
\* label changes in no other way: never in an include_* call, and never in a
\* refresh while the zone is disabled.
C9_RefreshRewritesEnabledOnly ==
    [][/\ RefreshCompletes =>
            /\ \A zone \in Zones :
                  /\ now <= reads'[zone] /\ reads'[zone] <= now'
                  /\ Truthy(Flag(zone)) =>
                        Label(zone)' =
                            Prefix(zone) \o Spaces(15 - Len(Prefix(zone))) \o
                            TimeString(zone, reads'[zone])
            /\ <<_utc, _local, _WSMR>>' = <<_utc, _local, _WSMR>>
       /\ \A zone \in Zones :
             Label(zone)' # Label(zone) => RefreshCompletes /\ Truthy(Flag(zone))
      ]_vars

\* after a refresh, the local zone is disabled and its label still shows the
\* time of construction, while the UTC label shows a later second
C9_Witness ==
    /\ EventLoopIdle
    /\ ~Truthy(_local)
    /\ Truthy(_utc)
    /\ reads["utc"] >= 1000
    /\ _label_utc = LabelText(_utc_prefix, TimeString("utc", reads["utc"]), _postfix)
    /\ _label_local = LabelText(_local_prefix, TimeString("local", 0), _postfix)
    /\ _local_str # TimeString("local", 0)

=============================================================================
